---- MODULE Spec2Model ----
(***************************************************************************)
(* acm-manager: the Ingress reconciler (controllers/ingress_controller.go, *)
(* kept here as src/unnamed/part_000) and the annotation parser            *)
(* (src/controllers/annotations.go).                                       *)
(*                                                                         *)
(* Go strings are sequences of one-character strings, so that ToLower,     *)
(* EqualFold, HasSuffix, TrimSuffix, TrimPrefix, Split and TrimSpace are   *)
(* computed character by character as the library computes them.          *)
(***************************************************************************)
EXTENDS Integers, Sequences, FiniteSets, TLC

\* ------------------------------------------------------------------------
\* Bounds of the model
\* ------------------------------------------------------------------------

\* certificates the authority ever creates in one behaviour (pre-existing
\* ones and RequestCertificate calls together)
MaxCerts == 2

\* hosted zones the resolver is applied to
MaxZones == 3

\* validation requirements of the certificate the orchestrator is applied to
MaxOpts == 3

\* ------------------------------------------------------------------------
\* Program constants
\* ------------------------------------------------------------------------

\* timeout := 10 * time.Minute, in seconds
TimeoutSec == 600
\* interval := 15 * time.Second, in seconds
IntervalSec == 15
\* RequeueAfter: 12 * time.Hour, in hours
ResyncHours == 12

\* ------------------------------------------------------------------------
\* Strings
\* ------------------------------------------------------------------------

\* the letter pairs <<lower, upper>> of the alphabet the model's strings use
LetterPairs ==
    { <<"a", "A">>, <<"b", "B">>, <<"c", "C">>, <<"t", "T">>, <<"r", "R">>,
      <<"u", "U">>, <<"e", "E">>, <<"f", "F">>, <<"l", "L">>, <<"s", "S">> }

\* unicode.ToLower of one character
LowerChar(c) ==
    IF \E p \in LetterPairs : p[2] = c
    THEN (CHOOSE p \in LetterPairs : p[2] = c)[1]
    ELSE c

\* strings.ToLower
ToLower(s) == [i \in 1..Len(s) |-> LowerChar(s[i])]

\* strings.EqualFold (simple case folding of the ASCII letters)
EqualFold(s, t) == ToLower(s) = ToLower(t)

\* strings.HasSuffix
HasSuffix(s, suffix) ==
    /\ Len(s) >= Len(suffix)
    /\ SubSeq(s, Len(s) - Len(suffix) + 1, Len(s)) = suffix

\* strings.HasPrefix
HasPrefix(s, prefix) ==
    /\ Len(s) >= Len(prefix)
    /\ SubSeq(s, 1, Len(prefix)) = prefix

\* strings.TrimSuffix
TrimSuffix(s, suffix) ==
    IF HasSuffix(s, suffix) THEN SubSeq(s, 1, Len(s) - Len(suffix)) ELSE s

\* strings.TrimPrefix
TrimPrefix(s, prefix) ==
    IF HasPrefix(s, prefix) THEN SubSeq(s, Len(prefix) + 1, Len(s)) ELSE s

\* the characters strings.TrimSpace strips
IsSpace(c) == c \in {" ", "\t", "\n"}

RECURSIVE TrimLeft(_)
TrimLeft(s) ==
    IF s # <<>> /\ IsSpace(Head(s)) THEN TrimLeft(Tail(s)) ELSE s

RECURSIVE TrimRight(_)
TrimRight(s) ==
    IF s # <<>> /\ IsSpace(s[Len(s)])
    THEN TrimRight(SubSeq(s, 1, Len(s) - 1))
    ELSE s

\* strings.TrimSpace
TrimSpace(s) == TrimRight(TrimLeft(s))

\* strings.Split(s, ","): the pieces between the separators; a string without
\* separator, the empty string included, is one piece
RECURSIVE SplitFrom(_, _)
SplitFrom(s, cur) ==
    IF s = <<>> THEN <<cur>>
    ELSE IF Head(s) = "," THEN <<cur>> \o SplitFrom(Tail(s), <<>>)
    ELSE SplitFrom(Tail(s), Append(cur, Head(s)))

Split(s) == SplitFrom(s, <<>>)

\* string literals of the program
StrTrue == <<"t", "r", "u", "e">>
StrFalse == <<"f", "a", "l", "s", "e">>
StrDot == <<".">>
StrStarDot == <<"*", ".">>
StrHostedZonePrefix ==
    <<"/", "h", "o", "s", "t", "e", "d", "z", "o", "n", "e", "/">>

\* ------------------------------------------------------------------------
\* Annotations (src/controllers/annotations.go)
\* ------------------------------------------------------------------------

KeyManaged == "acm.tedens.dev/managed"
KeyDomain == "acm.tedens.dev/domain"
KeyZoneID == "acm.tedens.dev/zone-id"
KeyWildcard == "acm.tedens.dev/wildcard"
KeyReuse == "acm.tedens.dev/reuse-existing"
KeyDelete == "acm.tedens.dev/delete-cert-on-ingress-delete"
KeyFallback == "acm.tedens.dev/fallback-wildcard"
KeySan == "acm.tedens.dev/san"

AnnotationKeys ==
    {KeyManaged, KeyDomain, KeyZoneID, KeyWildcard, KeyReuse, KeyDelete,
     KeyFallback, KeySan}

\* annotations[k] of a Go map: the empty string for an absent key
AnnGet(annotations, k) ==
    IF k \in DOMAIN annotations THEN annotations[k] ELSE <<>>

\* faulty variant of ParseManaged: managed by default, as reuse-existing is
ParseManagedByDefault(annotations) == AnnGet(annotations, KeyManaged) # StrFalse

\* Managed: annotations["acm.tedens.dev/managed"] == "true"
ParseManaged(annotations) == AnnGet(annotations, KeyManaged) = StrTrue

\* rawWildcard := strings.ToLower(...); Wildcard: rawWildcard == "true"
ParseWildcard(annotations) == ToLower(AnnGet(annotations, KeyWildcard)) = StrTrue

\* ReuseExisting: annotations["acm.tedens.dev/reuse-existing"] != "false"
ParseReuseExisting(annotations) == AnnGet(annotations, KeyReuse) # StrFalse

\* rawDelete := strings.ToLower(...); DeleteCertOnIngress: rawDelete == "true"
ParseDeleteCertOnIngress(annotations) ==
    ToLower(AnnGet(annotations, KeyDelete)) = StrTrue

\* the SANs: split at the commas and trimmed when the key is present, nil
\* (length 0) otherwise
ParseSANs(annotations) ==
    IF KeySan \in DOMAIN annotations
    THEN LET parts == Split(annotations[KeySan])
         IN  [i \in 1..Len(parts) |-> TrimSpace(parts[i])]
    ELSE <<>>

ParseIngressAnnotations(annotations) ==
    [ Managed             |-> ParseManaged(annotations),
      DomainOverride      |-> AnnGet(annotations, KeyDomain),
      ZoneID              |-> AnnGet(annotations, KeyZoneID),
      Wildcard            |-> ParseWildcard(annotations),
      SANs                |-> ParseSANs(annotations),
      ReuseExisting       |-> ParseReuseExisting(annotations),
      DeleteCertOnIngress |-> ParseDeleteCertOnIngress(annotations),
      FallbackWildcard    |-> AnnGet(annotations, KeyFallback) = StrTrue ]

\* ------------------------------------------------------------------------
\* Hosted-zone resolver (findMatchingHostedZone)
\* ------------------------------------------------------------------------

\* faulty variant of ZoneScan: a zone of the same length replaces the current best
RECURSIVE ZoneScanKeepLast(_, _, _, _, _)
ZoneScanKeepLast(hostedZones, domain, i, matchedZoneID, longestMatchLen) ==
    IF i > Len(hostedZones) THEN matchedZoneID
    ELSE LET zoneName == TrimSuffix(hostedZones[i].Name, StrDot)
         IN  IF HasSuffix(domain, zoneName) /\ Len(zoneName) >= longestMatchLen
             THEN ZoneScanKeepLast(hostedZones, domain, i + 1, hostedZones[i].Id,
                                   Len(zoneName))
             ELSE ZoneScanKeepLast(hostedZones, domain, i + 1, matchedZoneID,
                                   longestMatchLen)

\* the loop over list.HostedZones from zone i on, carrying matchedZoneID and
\* longestMatchLen; its value is the final matchedZoneID
RECURSIVE ZoneScan(_, _, _, _, _)
ZoneScan(hostedZones, domain, i, matchedZoneID, longestMatchLen) ==
    IF i > Len(hostedZones) THEN matchedZoneID
    ELSE LET zoneName == TrimSuffix(hostedZones[i].Name, StrDot)
         IN  IF HasSuffix(domain, zoneName) /\ Len(zoneName) > longestMatchLen
             THEN ZoneScan(hostedZones, domain, i + 1, hostedZones[i].Id,
                           Len(zoneName))
             ELSE ZoneScan(hostedZones, domain, i + 1, matchedZoneID,
                           longestMatchLen)

\* faulty variant of FindMatchingHostedZone: the check of an empty matchedZoneID is
\* missing
FindMatchingHostedZoneUnchecked(hostedZones, domain) ==
    [ ok |-> TRUE,
      id |-> TrimPrefix(ZoneScan(hostedZones, domain, 1, <<>>, 0), StrHostedZonePrefix) ]

\* findMatchingHostedZone once ListHostedZones has answered: ok with the zone
\* id, or not ok ("no matching hosted zone found")
FindMatchingHostedZone(hostedZones, domain) ==
    LET matchedZoneID == ZoneScan(hostedZones, domain, 1, <<>>, 0)
    IN  IF matchedZoneID = <<>>
        THEN [ok |-> FALSE, id |-> <<>>]
        ELSE [ok |-> TRUE, id |-> TrimPrefix(matchedZoneID, StrHostedZonePrefix)]

\* ------------------------------------------------------------------------
\* Certificates at the authority
\* ------------------------------------------------------------------------

StatusIssued == "ISSUED"
StatusPending == "PENDING_VALIDATION"
StatusFailed == "FAILED"

\* faulty variant of ListStatuses: failed certificates are listed too
ListStatusesWithFailed == {StatusIssued, StatusPending, StatusFailed}

\* CertificateStatuses of both ListCertificates calls
ListStatuses == {StatusIssued, StatusPending}

\* the certificates a ListCertificates call with ListStatuses answers, in the
\* order of the store
RECURSIVE FilterListed(_)
FilterListed(cs) ==
    IF cs = <<>> THEN <<>>
    ELSE IF Head(cs).status \in ListStatuses
         THEN <<Head(cs)>> \o FilterListed(Tail(cs))
         ELSE FilterListed(Tail(cs))

\* the answers a ListCertificates call may give: the listed certificates in
\* any order (the API promises none)
ListAnswers(cs) ==
    LET f == FilterListed(cs)
        n == Len(f)
    IN  { [i \in 1..n |-> f[perm[i]]] :
            perm \in { q \in [1..n -> 1..n] : \A a, b \in 1..n : a # b => q[a] # q[b] } }

\* the loop "for _, cert := range out.CertificateSummaryList": the index of the
\* first certificate whose DomainName EqualFolds domain, 0 when there is none
RECURSIVE FirstMatchFrom(_, _, _)
FirstMatchFrom(summaries, domain, i) ==
    IF i > Len(summaries) THEN 0
    ELSE IF EqualFold(summaries[i].domain, domain) THEN i
    ELSE FirstMatchFrom(summaries, domain, i + 1)

\* faulty variant of FirstMatch: the domain names compared with ==
RECURSIVE FirstExactMatchFrom(_, _, _)
FirstExactMatchFrom(summaries, domain, i) ==
    IF i > Len(summaries) THEN 0
    ELSE IF summaries[i].domain = domain THEN i
    ELSE FirstExactMatchFrom(summaries, domain, i + 1)

FirstMatchExact(summaries, domain) == FirstExactMatchFrom(summaries, domain, 1)

FirstMatch(summaries, domain) == FirstMatchFrom(summaries, domain, 1)

\* the certificate with this ARN in the store: its index, 0 when it is gone
RECURSIVE IndexOfArn(_, _, _)
IndexOfArn(cs, arn, i) ==
    IF i > Len(cs) THEN 0
    ELSE IF cs[i].arn = arn THEN i
    ELSE IndexOfArn(cs, arn, i + 1)

\* the store without the certificate with this ARN
RECURSIVE RemoveArn(_, _)
RemoveArn(cs, arn) ==
    IF cs = <<>> THEN <<>>
    ELSE IF Head(cs).arn = arn THEN Tail(cs)
    ELSE <<Head(cs)>> \o RemoveArn(Tail(cs), arn)

\* ------------------------------------------------------------------------
\* State
\* ------------------------------------------------------------------------

VARIABLES
    ing,      \* the Ingress objects at the API server, by resource
    pass,     \* the Reconcile pass of each resource: its position and locals
    certs,    \* the certificates at the authority, in the store's order
    nextArn,  \* certificates created so far; the next ARN is nextArn + 1
    zones,    \* the hosted zones at the DNS provider
    rrsets,   \* the record sets upserted at the DNS provider
    fnIn,     \* the input of the pure function a functional check applies
    fnOut     \* its result (FnNone before it was applied)

vars == <<ing, pass, certs, nextArn, zones, rrsets, fnIn, fnOut>>

\* the names of the watched resources; a specification reconciles those it
\* starts with (DOMAIN ing)
Resources == {"r1", "r2"}

\* const ingressFinalizer = "acm.tedens.dev/finalizer"
ingressFinalizer == "acm.tedens.dev/finalizer"

\* a finalizer of some other controller
OtherFinalizer == "other/finalizer"

FnNone == [none |-> TRUE]

\* the error values a pass may return ("" is nil)
ErrNone == ""

\* the validation the previous pass of a resource gave up: none
NoPrev == [err |-> ErrNone, arn |-> 0]

\* the validation a pass that returns gave up: the error of its poll loop
\* ("Timeout" or "CertFailed") and the certificate it polled, or none
GaveUp(p) ==
    IF p.err \in {"Timeout", "CertFailed"} THEN [err |-> p.err, arn |-> p.arn]
                                           ELSE NoPrev

\* the pass of a resource no worker is reconciling
IdlePass ==
    [ pc       |-> "idle",
      prev     |-> NoPrev,
      cfg      |-> ParseIngressAnnotations(<<>>),
      domain   |-> <<>>,
      obj      |-> [fins |-> {}, deleting |-> FALSE, certArn |-> 0],
      addedFin |-> FALSE,
      listed   |-> <<>>,
      target   |-> 0,
      arn      |-> 0,
      reused   |-> FALSE,
      opts     |-> <<>>,
      idx      |-> 0,
      seen     |-> {},
      zone     |-> <<>>,
      ups      |-> <<>>,
      elapsed  |-> 0,
      attempts |-> 0,
      err      |-> ErrNone,
      requeue  |-> 0 ]

\* return ctrl.Result{RequeueAfter: requeue}, err: the locals of the loops are
\* gone; what the pass did (cfg, domain, obj, addedFin, target, arn, reused, ups) stays
\* readable until the worker takes the next event, and prev is the validation
\* the pass before this one gave up
Return(p, err, requeue) ==
    [p EXCEPT !.pc = "done", !.err = err, !.requeue = requeue,
              !.listed = <<>>, !.opts = <<>>, !.idx = 0, !.seen = {},
              !.zone = <<>>, !.elapsed = 0, !.attempts = 0]

\* domain := cfg.DomainOverride; if domain == "" && len(Rules) > 0 { Rules[0].Host }
\* (an Ingress without rules has host <<>>)
ResolveDomain(cfg, host) ==
    IF cfg.DomainOverride = <<>> THEN host ELSE cfg.DomainOverride

\* the first call of ensureCertificate: the list when cfg.ReuseExisting, the
\* request otherwise
EnsureEntry(p) ==
    [p EXCEPT !.pc = IF p.cfg.ReuseExisting THEN "ensureList" ELSE "request"]

\* faulty variant of Dispatch: a resource that is not being deleted goes on
\* to ensureCertificate whether it carries the finalizer or not
DispatchWithoutFinalizer(p, o) ==
    LET cfg    == ParseIngressAnnotations(o.ann)
        loaded == [p EXCEPT !.cfg = cfg,
                            !.domain = ResolveDomain(cfg, o.host),
                            !.obj = [fins |-> o.fins, deleting |-> o.deleting,
                                     certArn |-> o.certArn]]
    IN  IF ~cfg.Managed THEN Return(loaded, ErrNone, 0)
        ELSE IF ~o.deleting THEN EnsureEntry(loaded)
        ELSE IF ingressFinalizer \in o.fins
             THEN IF cfg.DeleteCertOnIngress
                  THEN [loaded EXCEPT !.pc = "cleanupList"]
                  ELSE [loaded EXCEPT !.pc = "removeFinalizer"]
             ELSE Return(loaded, ErrNone, 0)

\* where Reconcile goes once the object is loaded and parsed: the first
\* external call it makes next, or its return
Dispatch(p, o) ==
    LET cfg    == ParseIngressAnnotations(o.ann)
        loaded == [p EXCEPT !.cfg = cfg,
                            !.domain = ResolveDomain(cfg, o.host),
                            !.obj = [fins |-> o.fins, deleting |-> o.deleting,
                                     certArn |-> o.certArn]]
    IN  IF ~cfg.Managed THEN Return(loaded, ErrNone, 0)
        ELSE IF ~o.deleting
        THEN IF ingressFinalizer \notin o.fins
             THEN [loaded EXCEPT !.pc = "addFinalizer"]
             ELSE EnsureEntry(loaded)
        ELSE IF ingressFinalizer \in o.fins
             THEN IF cfg.DeleteCertOnIngress
                  THEN [loaded EXCEPT !.pc = "cleanupList"]
                  ELSE [loaded EXCEPT !.pc = "removeFinalizer"]
             ELSE Return(loaded, ErrNone, 0)

\* r.Get at the start of Reconcile, and what follows it up to the next call
Get(r) ==
    /\ r \in DOMAIN pass
    /\ pass[r].pc = "idle"
    /\ \/ pass' = [pass EXCEPT ![r] = Return(@, "GetErr", 0)]
       \/ /\ ~ing[r].exists
          /\ pass' = [pass EXCEPT ![r] = Return(@, ErrNone, 0)]
       \/ /\ ing[r].exists
          /\ pass' = [pass EXCEPT ![r] = Dispatch(@, ing[r])]
    /\ UNCHANGED <<ing, certs, nextArn, zones, rrsets, fnIn, fnOut>>

\* r.Update and r.Patch answer NotFound for an object that is gone
UpdateMustFail(r) == ~ing[r].exists

\* controllerutil.AddFinalizer; r.Update
AddFinalizer(r) ==
    /\ r \in DOMAIN pass
    /\ pass[r].pc = "addFinalizer"
    /\ \/ /\ pass' = [pass EXCEPT ![r] = Return(@, "UpdateErr", 0)]
          /\ UNCHANGED ing
       \/ /\ ~UpdateMustFail(r)
          /\ ing' = [ing EXCEPT ![r].fins = @ \cup {ingressFinalizer}]
          /\ pass' = [pass EXCEPT ![r] =
                        EnsureEntry([@ EXCEPT !.obj.fins = @ \cup {ingressFinalizer},
                                              !.addedFin = TRUE])]
    /\ UNCHANGED <<certs, nextArn, zones, rrsets, fnIn, fnOut>>

\* ListCertificates of deleteCertificateForDomain, and the loop over its answer
CleanupList(r) ==
    /\ r \in DOMAIN pass
    /\ pass[r].pc = "cleanupList"
    /\ \/ pass' = [pass EXCEPT ![r] = Return(@, "ListErr", 0)]
       \/ \E out \in ListAnswers(certs) :
            LET m == FirstMatch(out, pass[r].domain)
            IN  pass' = [pass EXCEPT ![r].listed = out,
                                     ![r].target = IF m = 0 THEN 0 ELSE out[m].arn,
                                     ![r].pc = IF m = 0 THEN "removeFinalizer"
                                                        ELSE "deleteCert"]
    /\ UNCHANGED <<ing, certs, nextArn, zones, rrsets, fnIn, fnOut>>

\* faulty variant of DeleteCert: the error of DeleteCertificate is dropped
DeleteCertIgnoreErr(r) ==
    /\ r \in DOMAIN pass
    /\ pass[r].pc = "deleteCert"
    /\ \/ UNCHANGED certs
       \/ /\ IndexOfArn(certs, pass[r].target, 1) # 0
          /\ certs' = RemoveArn(certs, pass[r].target)
    /\ pass' = [pass EXCEPT ![r].pc = "removeFinalizer"]
    /\ UNCHANGED <<ing, nextArn, zones, rrsets, fnIn, fnOut>>

\* DeleteCertificate of the first match; "return err"
DeleteCert(r) ==
    /\ r \in DOMAIN pass
    /\ pass[r].pc = "deleteCert"
    /\ \/ /\ pass' = [pass EXCEPT ![r] = Return(@, "DeleteErr", 0)]
          /\ UNCHANGED certs
       \/ /\ IndexOfArn(certs, pass[r].target, 1) # 0
          /\ certs' = RemoveArn(certs, pass[r].target)
          /\ pass' = [pass EXCEPT ![r].pc = "removeFinalizer"]
    /\ UNCHANGED <<ing, nextArn, zones, rrsets, fnIn, fnOut>>

\* controllerutil.RemoveFinalizer; r.Update. The API server removes an object
\* that is being deleted once its last finalizer is gone.
RemoveFinalizer(r) ==
    /\ r \in DOMAIN pass
    /\ pass[r].pc = "removeFinalizer"
    /\ \/ /\ pass' = [pass EXCEPT ![r] = Return(@, "UpdateErr", 0)]
          /\ UNCHANGED ing
       \/ /\ ~UpdateMustFail(r)
          /\ LET left == ing[r].fins \ {ingressFinalizer}
             IN  ing' = [ing EXCEPT ![r].fins = left,
                                    ![r].exists = (left # {})]
          /\ pass' = [pass EXCEPT ![r] = Return([@ EXCEPT !.obj.fins = @ \ {ingressFinalizer}],
                                                ErrNone, 0)]
    /\ UNCHANGED <<certs, nextArn, zones, rrsets, fnIn, fnOut>>

\* ------------------------------------------------------------------------
\* ensureCertificate
\* ------------------------------------------------------------------------

\* ListCertificates of ensureCertificate (cfg.ReuseExisting), and the loop over
\* its answer: the first match is returned to Reconcile, which patches next
EnsureList(r) ==
    /\ r \in DOMAIN pass
    /\ pass[r].pc = "ensureList"
    /\ \/ pass' = [pass EXCEPT ![r] = Return(@, "ListErr", 0)]
       \/ \E out \in ListAnswers(certs) :
            LET m == FirstMatch(out, pass[r].domain)
            IN  pass' = [pass EXCEPT ![r].listed = out,
                                     ![r].arn = IF m = 0 THEN 0 ELSE out[m].arn,
                                     ![r].reused = (m # 0),
                                     ![r].pc = IF m = 0 THEN "request" ELSE "patch"]
    /\ UNCHANGED <<ing, certs, nextArn, zones, rrsets, fnIn, fnOut>>

\* ValidationMethod: acmtypes.ValidationMethodDns
ValidationMethodDns == "DNS"

\* faulty variant of RequestDomain: the wildcard prefix is never applied
RequestDomainPlain(cfg, domain) == domain

\* req.DomainName: "*." + domain when cfg.Wildcard
RequestDomain(cfg, domain) ==
    IF cfg.Wildcard THEN StrStarDot \o domain ELSE domain

\* faulty variant of RequestCertificate: the list is looked at again, under a
\* lock over the domain, and a certificate that matches by now is taken
\* instead of a new one
RequestCertificateUnlessPresent(r) ==
    /\ r \in DOMAIN pass
    /\ pass[r].pc = "request"
    /\ LET out == FilterListed(certs)
           m   == FirstMatch(out, pass[r].domain)
       IN  \/ /\ pass' = [pass EXCEPT ![r] = Return(@, "RequestErr", 0)]
              /\ UNCHANGED <<certs, nextArn>>
           \/ /\ m # 0
              /\ pass' = [pass EXCEPT ![r].arn = out[m].arn, ![r].reused = TRUE,
                                       ![r].pc = "patch"]
              /\ UNCHANGED <<certs, nextArn>>
           \/ /\ m = 0
              /\ nextArn < MaxCerts
              /\ nextArn' = nextArn + 1
              /\ certs' = Append(certs,
                     [ arn    |-> nextArn + 1,
                       domain |-> RequestDomain(pass[r].cfg, pass[r].domain),
                       sans   |-> pass[r].cfg.SANs,
                       method |-> ValidationMethodDns,
                       status |-> StatusPending,
                       by     |-> r ])
              /\ pass' = [pass EXCEPT ![r].arn = nextArn + 1, ![r].pc = "dnsDescribe"]
    /\ UNCHANGED <<ing, zones, rrsets, fnIn, fnOut>>

\* RequestCertificate: the authority creates a certificate pending validation
RequestCertificate(r) ==
    /\ r \in DOMAIN pass
    /\ pass[r].pc = "request"
    /\ \/ /\ pass' = [pass EXCEPT ![r] = Return(@, "RequestErr", 0)]
          /\ UNCHANGED <<certs, nextArn>>
       \/ /\ nextArn < MaxCerts
          /\ nextArn' = nextArn + 1
          /\ certs' = Append(certs,
                 [ arn    |-> nextArn + 1,
                   domain |-> RequestDomain(pass[r].cfg, pass[r].domain),
                   sans   |-> pass[r].cfg.SANs,
                   method |-> ValidationMethodDns,
                   status |-> StatusPending,
                   by     |-> r ])
          /\ pass' = [pass EXCEPT ![r].arn = nextArn + 1, ![r].pc = "dnsDescribe"]
    /\ UNCHANGED <<ing, zones, rrsets, fnIn, fnOut>>

\* ------------------------------------------------------------------------
\* createRoute53ValidationRecords
\* ------------------------------------------------------------------------

\* option.ResourceRecord == nil
NilRecord == [nil |-> TRUE]

HasRecord(option) == "Name" \in DOMAIN option.ResourceRecord

TypeCNAME == <<"C", "N", "A", "M", "E">>

\* the validation record the authority asks for a name: a wildcard name and
\* its apex share one record
ValidationRecord(name) ==
    LET apex == TrimPrefix(name, StrStarDot)
    IN  [Name |-> <<"_">> \o apex \o StrDot, Type |-> TypeCNAME, Value |-> <<"v">> \o apex]

\* DomainValidationOptions of a certificate: one per name, with its record
\* once the authority has published it
ValidationOptions(cert, published) ==
    LET names == <<cert.domain>> \o cert.sans
    IN  [i \in 1..Len(names) |->
            [ DomainName     |-> names[i],
              ResourceRecord |-> IF published THEN ValidationRecord(names[i])
                                              ELSE NilRecord ]]

\* faulty variant of RecordKey: the key is the record's name alone
RecordKeyNameOnly(record) == record.Name

\* key := fmt.Sprintf("%s|%s|%s", record.Name, record.Type, record.Value)
RecordKey(record) ==
    record.Name \o <<"|">> \o record.Type \o <<"|">> \o record.Value

\* the loop over the options from p.idx on, up to its next external call
\* (ListHostedZones or ChangeResourceRecordSets) or its end, where
\* ensureCertificate sets the deadline and starts to poll
RECURSIVE DnsAdvance(_)
DnsAdvance(p) ==
    IF p.idx > Len(p.opts)
    THEN [p EXCEPT !.pc = "poll", !.elapsed = 0, !.attempts = 0,
                   !.idx = 0, !.seen = {}, !.zone = <<>>]
    ELSE LET option == p.opts[p.idx]
         IN  IF ~HasRecord(option)
             THEN DnsAdvance([p EXCEPT !.idx = @ + 1])
             ELSE LET key == RecordKey(option.ResourceRecord)
                  IN  IF key \in p.seen
                      THEN DnsAdvance([p EXCEPT !.idx = @ + 1])
                      ELSE IF p.cfg.ZoneID = <<>>
                           THEN [p EXCEPT !.seen = @ \cup {key}, !.pc = "findZone"]
                           ELSE [p EXCEPT !.seen = @ \cup {key},
                                          !.zone = p.cfg.ZoneID, !.pc = "upsert"]

\* DescribeCertificate of createRoute53ValidationRecords
DnsDescribe(r) ==
    /\ r \in DOMAIN pass
    /\ pass[r].pc = "dnsDescribe"
    /\ \/ pass' = [pass EXCEPT ![r] = Return(@, "DescribeErr", 0)]
       \/ /\ IndexOfArn(certs, pass[r].arn, 1) # 0
          /\ \E published \in BOOLEAN :
               LET cert == certs[IndexOfArn(certs, pass[r].arn, 1)]
               IN  pass' = [pass EXCEPT ![r] =
                       DnsAdvance([@ EXCEPT !.opts = ValidationOptions(cert, published),
                                            !.idx = 1, !.seen = {}])]
    /\ UNCHANGED <<ing, certs, nextArn, zones, rrsets, fnIn, fnOut>>

\* findMatchingHostedZone for the option's DomainName: ListHostedZones and
\* the scan
FindZone(r) ==
    /\ r \in DOMAIN pass
    /\ pass[r].pc = "findZone"
    /\ \/ pass' = [pass EXCEPT ![r] = Return(@, "ZoneListErr", 0)]
       \/ LET res == FindMatchingHostedZone(zones, pass[r].opts[pass[r].idx].DomainName)
          IN  pass' = [pass EXCEPT ![r] =
                  IF res.ok THEN [@ EXCEPT !.zone = res.id, !.pc = "upsert"]
                            ELSE Return(@, "ZoneNotFound", 0)]
    /\ UNCHANGED <<ing, certs, nextArn, zones, rrsets, fnIn, fnOut>>

\* faulty variant of Upsert: the certificate is deleted again when the upsert
\* fails
UpsertWithRollback(r) ==
    /\ r \in DOMAIN pass
    /\ pass[r].pc = "upsert"
    /\ LET record == pass[r].opts[pass[r].idx].ResourceRecord
           called == [pass[r] EXCEPT !.ups = Append(@, record)]
       IN  \/ /\ pass' = [pass EXCEPT ![r] = Return(called, "UpsertErr", 0)]
              /\ certs' = RemoveArn(certs, pass[r].arn)
              /\ UNCHANGED rrsets
           \/ /\ rrsets' = rrsets \cup
                    {[zone |-> pass[r].zone, name |-> record.Name,
                      type |-> record.Type, value |-> record.Value]}
              /\ pass' = [pass EXCEPT ![r] = DnsAdvance([called EXCEPT !.idx = @ + 1])]
              /\ UNCHANGED certs
    /\ UNCHANGED <<ing, nextArn, zones, fnIn, fnOut>>

\* ChangeResourceRecordSets: one UPSERT of the option's record in the zone
Upsert(r) ==
    /\ r \in DOMAIN pass
    /\ pass[r].pc = "upsert"
    /\ LET record == pass[r].opts[pass[r].idx].ResourceRecord
           called == [pass[r] EXCEPT !.ups = Append(@, record)]
       IN  \/ /\ pass' = [pass EXCEPT ![r] = Return(called, "UpsertErr", 0)]
              /\ UNCHANGED rrsets
           \/ /\ rrsets' = rrsets \cup
                    {[zone |-> pass[r].zone, name |-> record.Name,
                      type |-> record.Type, value |-> record.Value]}
              /\ pass' = [pass EXCEPT ![r] = DnsAdvance([called EXCEPT !.idx = @ + 1])]
    /\ UNCHANGED <<ing, certs, nextArn, zones, fnIn, fnOut>>

\* ------------------------------------------------------------------------
\* The poll loop of ensureCertificate, and the patch
\* ------------------------------------------------------------------------

\* faulty variant of PastDeadline: the loop has no deadline
PastDeadlineNever(p) == FALSE

\* faulty variant of PastDeadline: !time.Now().Before(deadline)
PastDeadlineInclusive(p) == p.elapsed >= TimeoutSec

\* time.Now().After(deadline), p.elapsed seconds after the deadline was set
PastDeadline(p) == p.elapsed > TimeoutSec

\* one round of the loop: the deadline check, DescribeCertificate, the switch
\* on the status, time.Sleep(interval)
Poll(r) ==
    /\ r \in DOMAIN pass
    /\ pass[r].pc = "poll"
    /\ IF PastDeadline(pass[r])
       THEN pass' = [pass EXCEPT ![r] = Return(@, "Timeout", 0)]
       ELSE LET polled == [pass[r] EXCEPT !.attempts = @ + 1]
                i == IndexOfArn(certs, pass[r].arn, 1)
            IN  \/ pass' = [pass EXCEPT ![r] = Return(pass[r], "DescribeErr", 0)]
                \/ /\ i # 0
                   /\ pass' = [pass EXCEPT ![r] =
                         IF certs[i].status = StatusIssued
                         THEN [polled EXCEPT !.pc = "patch"]
                         ELSE IF certs[i].status = StatusFailed
                         THEN Return(polled, "CertFailed", 0)
                         ELSE [polled EXCEPT !.elapsed = @ + IntervalSec]]
    /\ UNCHANGED <<ing, certs, nextArn, zones, rrsets, fnIn, fnOut>>

\* faulty variant of Patch: the pass returns ctrl.Result{} after the patch
PatchWithoutResync(r) ==
    /\ r \in DOMAIN pass
    /\ pass[r].pc = "patch"
    /\ \/ /\ pass' = [pass EXCEPT ![r] = Return(@, "PatchErr", 0)]
          /\ UNCHANGED ing
       \/ /\ ~UpdateMustFail(r)
          /\ ing' = [ing EXCEPT ![r].certArn = pass[r].arn]
          /\ pass' = [pass EXCEPT ![r] =
                 Return([@ EXCEPT !.obj.certArn = pass[r].arn], ErrNone, 0)]
    /\ UNCHANGED <<certs, nextArn, zones, rrsets, fnIn, fnOut>>

\* r.Patch of the certificate-arn annotation (a merge patch: no conflict on a
\* changed object); RequeueAfter: 12 * time.Hour
Patch(r) ==
    /\ r \in DOMAIN pass
    /\ pass[r].pc = "patch"
    /\ \/ /\ pass' = [pass EXCEPT ![r] = Return(@, "PatchErr", 0)]
          /\ UNCHANGED ing
       \/ /\ ~UpdateMustFail(r)
          /\ ing' = [ing EXCEPT ![r].certArn = pass[r].arn]
          /\ pass' = [pass EXCEPT ![r] =
                 Return([@ EXCEPT !.obj.certArn = pass[r].arn], ErrNone, ResyncHours)]
    /\ UNCHANGED <<certs, nextArn, zones, rrsets, fnIn, fnOut>>

\* the pass has returned; the worker is free for the next event of the
\* resource, whose pass follows this one
EndPass(r) ==
    /\ r \in DOMAIN pass
    /\ pass[r].pc = "done"
    /\ pass' = [pass EXCEPT ![r] = [IdlePass EXCEPT !.prev = GaveUp(pass[r])]]
    /\ UNCHANGED <<ing, certs, nextArn, zones, rrsets, fnIn, fnOut>>

\* ------------------------------------------------------------------------
\* The environment
\* ------------------------------------------------------------------------

\* the authority validates a pending certificate
AcmIssue(i) ==
    /\ i \in 1..Len(certs)
    /\ certs[i].status = StatusPending
    /\ certs' = [certs EXCEPT ![i].status = StatusIssued]
    /\ UNCHANGED <<ing, pass, nextArn, zones, rrsets, fnIn, fnOut>>

\* the authority gives up on a pending certificate
AcmFail(i) ==
    /\ i \in 1..Len(certs)
    /\ certs[i].status = StatusPending
    /\ certs' = [certs EXCEPT ![i].status = StatusFailed]
    /\ UNCHANGED <<ing, pass, nextArn, zones, rrsets, fnIn, fnOut>>

\* The user's changes are taken between the passes of the resource: a pass
\* sees a change made while it runs as a failed Update or Patch, which every
\* Update and Patch of the model may answer anyway.

\* kubectl delete: the deletion timestamp is set, and the object is gone at
\* once when it carries no finalizer
UserDelete(r) ==
    /\ r \in DOMAIN pass
    /\ pass[r].pc = "idle"
    /\ ing[r].exists
    /\ ~ing[r].deleting
    /\ ing' = [ing EXCEPT ![r].deleting = TRUE, ![r].exists = (ing[r].fins # {})]
    /\ UNCHANGED <<pass, certs, nextArn, zones, rrsets, fnIn, fnOut>>

\* the user takes the resource out of management: the managed annotation is
\* removed or set to "false"
UserUnmanage(r) ==
    /\ r \in DOMAIN pass
    /\ pass[r].pc = "idle"
    /\ ing[r].exists
    /\ ParseManaged(ing[r].ann)
    /\ \/ ing' = [ing EXCEPT ![r].ann = [k \in DOMAIN @ \ {KeyManaged} |-> @[k]]]
       \/ ing' = [ing EXCEPT ![r].ann[KeyManaged] = StrFalse]
    /\ UNCHANGED <<pass, certs, nextArn, zones, rrsets, fnIn, fnOut>>

\* ------------------------------------------------------------------------
\* The reconciler of one resource: initial states and specification
\* ------------------------------------------------------------------------

\* an annotation that is not set
Absent == <<"<absent>">>

\* the annotation map with the pairs <<key, value>> whose value is set
AnnFrom(pairs) ==
    [k \in {p[1] : p \in {q \in pairs : q[2] # Absent}} |->
        (CHOOSE p \in pairs : p[1] = k)[2]]

\* the host of the resource's first rule
HostAB == <<"a", ".", "b">>

ZoneB == [Id |-> StrHostedZonePrefix \o <<"Z", "1">>, Name |-> <<"b", ".">>]
ZoneAB == [Id |-> StrHostedZonePrefix \o <<"Z", "2">>, Name |-> <<"a", ".", "b", ".">>]
ZoneC == [Id |-> StrHostedZonePrefix \o <<"Z", "3">>, Name |-> <<"c", ".">>]

\* the zone-id annotation, when set
ZoneOverride == <<"Z", "9">>

\* the annotation maps of the resource
SpecAnnotations ==
    { AnnFrom({ <<KeyManaged, m>>, <<KeyWildcard, w>>, <<KeyReuse, u>>,
                <<KeyDelete, d>>, <<KeyZoneID, z>> }) :
        m \in {Absent, StrTrue, StrFalse},
        w \in {Absent, <<"T", "R", "U", "E">>},
        u \in {Absent, StrFalse},
        d \in {Absent, StrTrue},
        z \in {Absent, ZoneOverride} }

\* a certificate somebody else requested before, for the host in upper case
ForeignCert(status) ==
    [ arn |-> 1, domain |-> <<"A", ".", "B">>, sans |-> <<>>,
      method |-> ValidationMethodDns, status |-> status, by |-> "ext" ]

TypeOK ==
    /\ \A r \in DOMAIN ing : ing[r].certArn \in 0..MaxCerts
    /\ nextArn \in 0..MaxCerts
    /\ Len(certs) <= nextArn

Init ==
    /\ \E a \in SpecAnnotations, f \in {{}, {OtherFinalizer}} :
         ing = [r \in {"r1"} |->
                  [ exists |-> TRUE, ann |-> a, certArn |-> 0, fins |-> f,
                    deleting |-> FALSE, host |-> HostAB ]]
    /\ pass = [r \in {"r1"} |-> IdlePass]
    /\ certs \in {<<>>, <<ForeignCert(StatusIssued)>>, <<ForeignCert(StatusPending)>>}
    /\ nextArn = Len(certs)
    /\ zones \in {<<>>, <<ZoneC, ZoneB, ZoneAB>>}
    /\ zones # <<>> => \A r \in DOMAIN ing : KeyZoneID \notin DOMAIN ing[r].ann
    /\ rrsets = {}
    /\ fnIn = FnNone
    /\ fnOut = FnNone

Next ==
    \/ \E r \in Resources :
         \/ Get(r)
         \/ AddFinalizer(r)
         \/ CleanupList(r)
         \/ DeleteCert(r)
         \/ RemoveFinalizer(r)
         \/ EnsureList(r)
         \/ RequestCertificate(r)
         \/ DnsDescribe(r)
         \/ FindZone(r)
         \/ Upsert(r)
         \/ Poll(r)
         \/ Patch(r)
         \/ EndPass(r)
         \/ UserDelete(r)
         \/ UserUnmanage(r)
    \/ \E i \in 1..MaxCerts : AcmIssue(i) \/ AcmFail(i)

Spec == Init /\ [][Next]_vars

\* ------------------------------------------------------------------------
\* ParseIngressAnnotations alone
\* ------------------------------------------------------------------------

\* s with every choice of case for its letters, built from the letter pairs
RECURSIVE CaseVariants(_)
CaseVariants(s) ==
    IF s = <<>> THEN {<<>>}
    ELSE LET c == Head(s)
             heads == {c} \cup {p[2] : p \in {q \in LetterPairs : q[1] = c}}
                          \cup {p[1] : p \in {q \in LetterPairs : q[2] = c}}
         IN  {<<h>> \o t : h \in heads, t \in CaseVariants(Tail(s))}

\* the values a boolean annotation is given
BoolValues ==
    CaseVariants(StrTrue) \cup CaseVariants(StrFalse)
        \cup {Absent, <<>>, <<"1">>, <<"t">>, <<"t", "r", "u", "e", "e">>, <<" ", "t", "r", "u", "e">>}

\* the values of the san annotation
SanValues ==
    { Absent, <<>>, <<"a">>, <<"a", ",", "b">>, <<" ", "a", " ", ",", "b", "\t">>,
      <<",">>, <<"a", ",">>, <<" ">>, <<"a", " ", "b">> }

\* the boolean annotations
BoolKeys == {KeyManaged, KeyWildcard, KeyReuse, KeyDelete}

\* the annotation maps the parser is applied to: one boolean annotation over
\* all its values, the others over a few, and the san annotation
ParseInputs ==
    { AnnFrom({ <<f, v>> } \cup { <<k, o[k]>> : k \in BoolKeys \ {f} } \cup { <<KeySan, n>> }) :
        f \in BoolKeys, v \in BoolValues,
        o \in [BoolKeys -> {Absent, StrTrue, StrFalse}],
        n \in SanValues }

InitParse ==
    /\ fnIn \in ParseInputs
    /\ fnOut = FnNone
    /\ ing = <<>>
    /\ pass = <<>>
    /\ certs = <<>>
    /\ nextArn = 0
    /\ zones = <<>>
    /\ rrsets = {}

ApplyParse ==
    /\ fnOut = FnNone
    /\ fnOut' = ParseIngressAnnotations(fnIn)
    /\ UNCHANGED <<ing, pass, certs, nextArn, zones, rrsets, fnIn>>

SpecParse == InitParse /\ [][ApplyParse]_vars

\* ------------------------------------------------------------------------
\* findMatchingHostedZone alone
\* ------------------------------------------------------------------------

\* the sequences over S of length at most n
RECURSIVE SeqsUpTo(_, _)
SeqsUpTo(S, n) ==
    IF n = 0 THEN {<<>>}
    ELSE LET shorter == SeqsUpTo(S, n - 1)
         IN  shorter \cup {Append(q, x) : q \in {t \in shorter : Len(t) = n - 1}, x \in S}

\* zone names as the provider reports them (with the trailing dot) and
\* without; the provider hosts no zone for the root, so none is empty
ZoneNames ==
    { <<"b", ".">>, <<"b">>, <<"a", ".", "b", ".">>, <<"c", ".">>, <<"a", "b", ".">> }

\* the decimal digit of a place of a list
DigitChar(i) == <<"1", "2", "3", "4", "5", "6", "7", "8", "9">>[i]

\* the zone at place i of the list: its id names the place
ZoneAt(i, name, prefixed) ==
    [ Id   |-> (IF prefixed THEN StrHostedZonePrefix ELSE <<>>) \o <<"Z", DigitChar(i)>>,
      Name |-> name ]

\* the zone lists: any names, each id with or without the /hostedzone/ prefix
ZoneLists ==
    { [i \in 1..Len(q) |-> ZoneAt(i, q[i][1], q[i][2])] :
        q \in SeqsUpTo(ZoneNames \X BOOLEAN, MaxZones) }

\* the domains the resolver is asked for
ZoneDomains ==
    { <<"a", ".", "b">>, <<"*", ".", "a", ".", "b">>, <<"b">>, <<>>,
      <<"c", ".", "a", "b">>, <<"b", ".", "c">> }

InitZone ==
    /\ zones \in ZoneLists
    /\ fnIn \in ZoneDomains
    /\ fnOut = FnNone
    /\ ing = <<>>
    /\ pass = <<>>
    /\ certs = <<>>
    /\ nextArn = 0
    /\ rrsets = {}

\* findMatchingHostedZone: ListHostedZones fails, or the scan of its answer
ApplyFindZone ==
    /\ fnOut = FnNone
    /\ \/ fnOut' = [listErr |-> TRUE, ok |-> FALSE, id |-> <<>>]
       \/ fnOut' = [listErr |-> FALSE] @@ FindMatchingHostedZone(zones, fnIn)
    /\ UNCHANGED <<ing, pass, certs, nextArn, zones, rrsets, fnIn>>

SpecZone == InitZone /\ [][ApplyFindZone]_vars

\* ------------------------------------------------------------------------
\* createRoute53ValidationRecords alone
\* ------------------------------------------------------------------------

\* validation records that differ in the name, in the type or in the value
RecordAB == ValidationRecord(HostAB)
RecordOtherValue == [RecordAB EXCEPT !.Value = <<"w">>]
RecordOtherType == [RecordAB EXCEPT !.Type = <<"T", "X", "T">>]
RecordOtherName == [RecordAB EXCEPT !.Name = <<"_", "c", ".">>]

\* validation requirements: with or without record, for names with and
\* without a hosted zone
OptionValues ==
    { [DomainName |-> HostAB, ResourceRecord |-> rec] :
        rec \in {NilRecord, RecordAB, RecordOtherValue, RecordOtherType} }
    \cup { [DomainName |-> StrStarDot \o HostAB, ResourceRecord |-> RecordAB],
           [DomainName |-> <<"c">>, ResourceRecord |-> RecordOtherName] }

\* the pass of a managed resource that has requested certificate 1 and has
\* just read its validation requirements
InitDns ==
    /\ \E z \in {Absent, ZoneOverride} :
         ing = [r \in {"r1"} |->
                  [ exists |-> TRUE,
                    ann |-> AnnFrom({<<KeyManaged, StrTrue>>, <<KeyZoneID, z>>}),
                    certArn |-> 0, fins |-> {ingressFinalizer},
                    deleting |-> FALSE, host |-> HostAB ]]
    /\ zones \in {<<>>, <<ZoneC, ZoneB, ZoneAB>>}
    /\ certs = <<[ arn |-> 1, domain |-> HostAB, sans |-> <<>>,
                   method |-> ValidationMethodDns,
                   status |-> StatusPending, by |-> "r1" ]>>
    /\ nextArn = 1
    /\ rrsets = {}
    /\ fnIn = FnNone
    /\ fnOut = FnNone
    /\ \E o \in SeqsUpTo(OptionValues, MaxOpts) :
         pass = [r \in {"r1"} |->
                   DnsAdvance([IdlePass EXCEPT
                       !.cfg = ParseIngressAnnotations(ing[r].ann),
                       !.domain = HostAB,
                       !.obj = [fins |-> {ingressFinalizer}, deleting |-> FALSE,
                                certArn |-> 0],
                       !.arn = 1, !.opts = o, !.idx = 1])]

NextDns == \E r \in Resources : FindZone(r) \/ Upsert(r)

SpecDns == InitDns /\ [][NextDns]_vars

\* ------------------------------------------------------------------------
\* Reconcile up to the RequestCertificate call of ensureCertificate
\* ------------------------------------------------------------------------

\* the domain annotation, when set
DomainOverrideCB == <<"c", ".", "b">>

\* the annotation maps of a managed resource that is not being deleted: the
\* wildcard and san annotations over their values, with and without the
\* domain override and the reuse of existing certificates
RequestAnnotations ==
    { AnnFrom({ <<KeyManaged, StrTrue>>, <<KeyWildcard, w>>, <<KeyReuse, u>>,
                <<KeySan, n>>, <<KeyDomain, d>> }) :
        w \in {Absent, StrTrue, <<"T", "r", "u", "e">>, StrFalse},
        u \in {Absent, StrFalse},
        n \in SanValues,
        d \in {Absent, DomainOverrideCB} }

InitRequest ==
    /\ \E a \in RequestAnnotations, f \in {{}, {ingressFinalizer}} :
         ing = [r \in {"r1"} |->
                  [ exists |-> TRUE, ann |-> a, certArn |-> 0, fins |-> f,
                    deleting |-> FALSE, host |-> HostAB ]]
    /\ pass = [r \in {"r1"} |-> IdlePass]
    /\ certs \in {<<>>, <<ForeignCert(StatusIssued)>>}
    /\ nextArn = Len(certs)
    /\ zones = <<>>
    /\ rrsets = {}
    /\ fnIn = FnNone
    /\ fnOut = FnNone

\* the calls of a pass from its start to the answer of RequestCertificate
NextRequest ==
    \E r \in Resources :
        \/ Get(r)
        \/ AddFinalizer(r)
        \/ EnsureList(r)
        \/ RequestCertificate(r)

SpecRequest == InitRequest /\ [][NextRequest]_vars

\* ------------------------------------------------------------------------
\* Two resources with one domain, reconciled at the same time
\* ------------------------------------------------------------------------

\* Two passes run at the same time when two workers do: the controller is
\* built without a bound on this (SetupWithManager), and the manager runs
\* without leader election unless told otherwise (main.go), so that two
\* managers reconcile the same resources.
InitTwo ==
    /\ \E w \in [Resources -> {Absent, <<"T", "R", "U", "E">>}],
          f \in [Resources -> {{}, {ingressFinalizer}}] :
         ing = [r \in Resources |->
                  [ exists |-> TRUE,
                    ann |-> AnnFrom({<<KeyManaged, StrTrue>>, <<KeyWildcard, w[r]>>}),
                    certArn |-> 0, fins |-> f[r], deleting |-> FALSE, host |-> HostAB ]]
    /\ pass = [r \in Resources |-> IdlePass]
    /\ certs \in {<<>>, <<ForeignCert(StatusIssued)>>}
    /\ nextArn = Len(certs)
    /\ zones = <<>>
    /\ rrsets = {}
    /\ fnIn = FnNone
    /\ fnOut = FnNone

SpecTwo == InitTwo /\ [][NextRequest]_vars

\* ------------------------------------------------------------------------
\* The passes on a resource that is being deleted
\* ------------------------------------------------------------------------

\* the annotation maps of a managed resource
DeletionAnnotations ==
    { AnnFrom({ <<KeyManaged, StrTrue>>, <<KeyWildcard, w>>, <<KeyDelete, d>> }) :
        w \in {Absent, <<"T", "R", "U", "E">>},
        d \in {Absent, StrTrue, <<"T", "r", "u", "e">>} }

\* the certificate an earlier pass on the resource requested
OwnCert(ann, status) ==
    [ arn |-> 1, domain |-> RequestDomain(ParseIngressAnnotations(ann), HostAB),
      sans |-> <<>>, method |-> ValidationMethodDns, status |-> status, by |-> "r1" ]

\* a managed resource whose earlier passes added the finalizer and requested
\* or reused a certificate (or failed to), and which the user has deleted
InitDeletion ==
    /\ \E a \in DeletionAnnotations, f \in {{ingressFinalizer}, {ingressFinalizer, OtherFinalizer}} :
         /\ ing = [r \in {"r1"} |->
                     [ exists |-> TRUE, ann |-> a, certArn |-> 0, fins |-> f,
                       deleting |-> TRUE, host |-> HostAB ]]
         /\ certs \in { <<>>, <<ForeignCert(StatusIssued)>>,
                         <<OwnCert(a, StatusPending)>>, <<OwnCert(a, StatusIssued)>>,
                         <<OwnCert(a, StatusFailed)>> }
    /\ pass = [r \in {"r1"} |-> IdlePass]
    /\ nextArn = Len(certs)
    /\ zones = <<>>
    /\ rrsets = {}
    /\ fnIn = FnNone
    /\ fnOut = FnNone

NextDeletion ==
    \E r \in Resources :
        \/ Get(r)
        \/ CleanupList(r)
        \/ DeleteCert(r)
        \/ RemoveFinalizer(r)
        \/ EndPass(r)
        \/ UserUnmanage(r)

\* the platform keeps running passes for the resource (a pass that returned is
\* followed by the next one), and each call of a pass succeeds eventually when
\* it is made again and again
FairDeletion ==
    \A r \in Resources :
        /\ WF_vars(EndPass(r))
        /\ SF_vars(Get(r) /\ pass'[r].err = ErrNone)
        /\ SF_vars(CleanupList(r) /\ pass'[r].err = ErrNone)
        /\ SF_vars(DeleteCert(r) /\ pass'[r].err = ErrNone)
        /\ SF_vars(RemoveFinalizer(r) /\ pass'[r].err = ErrNone)

SpecDeletion == InitDeletion /\ [][NextDeletion]_vars /\ FairDeletion

\* ------------------------------------------------------------------------
\* The poll loop of ensureCertificate alone
\* ------------------------------------------------------------------------

\* a pass that has requested certificate 1 and created its validation
\* records sets the deadline and enters the loop; the authority may have
\* settled the certificate by then
InitPoll ==
    /\ \E a \in { AnnFrom({<<KeyManaged, StrTrue>>, <<KeyWildcard, w>>, <<KeyReuse, u>>}) :
                     w \in {Absent, StrTrue}, u \in {Absent, StrFalse} } :
         /\ ing = [r \in {"r1"} |->
                     [ exists |-> TRUE, ann |-> a, certArn |-> 0,
                       fins |-> {ingressFinalizer}, deleting |-> FALSE, host |-> HostAB ]]
         /\ certs \in { <<OwnCert(a, st)>> : st \in {StatusPending, StatusIssued, StatusFailed} }
         /\ pass = [r \in {"r1"} |->
                      [IdlePass EXCEPT
                          !.cfg = ParseIngressAnnotations(a),
                          !.domain = HostAB,
                          !.obj = [fins |-> {ingressFinalizer}, deleting |-> FALSE,
                                   certArn |-> 0],
                          !.arn = 1, !.pc = "poll"]]
    /\ nextArn = 1
    /\ zones = <<>>
    /\ rrsets = {}
    /\ fnIn = FnNone
    /\ fnOut = FnNone

NextPoll ==
    \/ \E r \in Resources : Poll(r)
    \/ \E i \in 1..MaxCerts : AcmIssue(i) \/ AcmFail(i)

\* the worker that runs the pass keeps running: a describe call returns and
\* time.Sleep(interval) ends
FairPoll == \A r \in Resources : WF_vars(Poll(r))

SpecPoll == InitPoll /\ [][NextPoll]_vars /\ FairPoll

\* ------------------------------------------------------------------------
\* Properties
\* ------------------------------------------------------------------------

\* the certificates of the store a ListCertificates call answers whose
\* domain name equals domain but for the case
MatchingListed(domain) ==
    { i \in 1..Len(certs) :
        /\ certs[i].status \in {StatusIssued, StatusPending}
        /\ ToLower(certs[i].domain) = ToLower(domain) }

\* place i is the first of the list whose domain name equals domain but for
\* the case
IsFirstMatchAt(list, domain, i) ==
    /\ i \in 1..Len(list)
    /\ ToLower(list[i].domain) = ToLower(domain)
    /\ \A j \in 1..(i - 1) : ToLower(list[j].domain) # ToLower(domain)

ArnsOf(cs) == {cs[i].arn : i \in 1..Len(cs)}

HasFinalizer(r) == ing[r].exists /\ ingressFinalizer \in ing[r].fins

\* C1, the steps of the deletion pass: when the list call of the cleanup
\* succeeded and a listed certificate matches the domain, the first match of
\* the answer is the one to delete; the delete call's success removes it from
\* the authority; the finalizer is removed only by the Update that follows,
\* and with delete-cert-on-ingress-delete set and a match found, only once
\* that certificate is gone; a failed list or delete call returns its error
\* and changes nothing at the resource
C1_Steps(r) ==
    /\ ( /\ pass[r].pc = "cleanupList"
         /\ pass'[r].pc \notin {"cleanupList", "done"}
         /\ MatchingListed(pass[r].domain) # {} )
       => /\ pass'[r].pc = "deleteCert"
          /\ \E i \in 1..Len(pass'[r].listed) :
               /\ IsFirstMatchAt(pass'[r].listed, pass[r].domain, i)
               /\ pass'[r].target = pass'[r].listed[i].arn
          /\ pass'[r].target \in ArnsOf(certs)
    /\ (pass[r].pc = "deleteCert" /\ pass'[r].pc # "deleteCert")
       => \/ /\ pass'[r].pc = "removeFinalizer"
             /\ pass[r].target \in ArnsOf(certs)
             /\ pass[r].target \notin ArnsOf(certs')
          \/ /\ pass'[r].pc = "done"
             /\ pass'[r].err = "DeleteErr"
             /\ UNCHANGED <<ing, certs>>
    /\ (pass[r].pc = "cleanupList" /\ pass'[r].pc = "done")
       => pass'[r].err = "ListErr" /\ UNCHANGED <<ing, certs>>
    /\ (HasFinalizer(r) /\ ~HasFinalizer(r)')
       => /\ pass[r].pc = "removeFinalizer"
          /\ pass[r].obj.deleting
          /\ pass'[r].pc = "done" /\ pass'[r].err = ErrNone
          /\ (pass[r].cfg.DeleteCertOnIngress /\ pass[r].target # 0)
             => pass[r].target \notin ArnsOf(certs)

\* C1, the result of a failed cleanup: the pass has returned the error of the
\* list or delete call and the finalizer is still on the resource
C1_FailureKeepsFinalizer ==
    \A r \in DOMAIN pass :
        ( /\ pass[r].pc = "done"
          /\ pass[r].obj.deleting
          /\ pass[r].cfg.DeleteCertOnIngress
          /\ pass[r].err \in {"ListErr", "DeleteErr"} )
        => HasFinalizer(r)

\* C1: in a pass on a managed resource that is being deleted and carries the
\* finalizer, with delete-cert-on-ingress-delete=true and a listed certificate
\* matching the domain, the certificate is deleted and the finalizer is
\* removed and persisted only after the delete call succeeded; when the list
\* or delete call fails the pass returns the error and the finalizer is still
\* on the resource
C1_CleanupBeforeFinalizerRemoval ==
    /\ [][\A r \in DOMAIN pass : C1_Steps(r)]_vars
    /\ []C1_FailureKeepsFinalizer

\* C1 witness: a deletion pass has deleted the matching certificate and then
\* removed the finalizer
C1_Witness ==
    \E r \in DOMAIN pass :
        /\ pass[r].pc = "done"
        /\ pass[r].err = ErrNone
        /\ pass[r].obj.deleting
        /\ pass[r].cfg.DeleteCertOnIngress
        /\ pass[r].target # 0
        /\ pass[r].target \notin ArnsOf(certs)
        /\ ~HasFinalizer(r)

\* C2, the step of the list call of ensureCertificate (made only when
\* ReuseExisting): when it succeeded and a listed certificate matches the
\* domain, the pass holds the identifier of the first match of the answer and
\* goes on to the patch; a pass that reuses requests nothing and upserts nothing
C2_Steps(r) ==
    /\ ( /\ pass[r].pc = "ensureList"
         /\ pass'[r].pc \notin {"ensureList", "done"}
         /\ MatchingListed(pass[r].domain) # {} )
       => /\ pass[r].cfg.ReuseExisting
          /\ pass'[r].pc = "patch"
          /\ pass'[r].reused
          /\ \E i \in 1..Len(pass'[r].listed) :
               /\ IsFirstMatchAt(pass'[r].listed, pass[r].domain, i)
               /\ pass'[r].arn = pass'[r].listed[i].arn
          /\ UNCHANGED <<certs, nextArn, rrsets>>
    /\ (pass'[r].reused /\ pass'[r] # pass[r])
       => /\ UNCHANGED <<certs, nextArn, rrsets>>
          /\ pass'[r].pc \in {"patch", "done"}
          /\ pass'[r].ups = <<>>
          /\ pass'[r].opts = <<>>
          /\ pass'[r].attempts = 0

\* C2: with ReuseExisting=true and a certificate in status Issued or
\* PendingValidation whose domain name equals the domain case-insensitively,
\* ensureCertificate (its list call succeeding) returns the identifier of the
\* first such certificate of the answer and makes no RequestCertificate call,
\* no DNS upsert and no describe call in that pass
C2_ReuseMakesNoRequest == [][\A r \in DOMAIN pass : C2_Steps(r)]_vars

\* C2 witness: a pass reuses a certificate whose domain name differs from the
\* domain in the case of its letters
C2_Witness ==
    \E r \in DOMAIN pass :
        /\ pass[r].pc = "patch"
        /\ pass[r].reused
        /\ \E i \in 1..Len(certs) :
             /\ certs[i].arn = pass[r].arn
             /\ certs[i].domain # pass[r].domain

\* C3: over the serialized passes of one resource, no RequestCertificate call
\* is submitted for the resource while a certificate requested for it before
\* is still in status PendingValidation
C3_NoRequestWhilePending ==
    [][\A r \in DOMAIN pass :
          (pass[r].pc = "request" /\ Len(certs') > Len(certs))
          => ~\E i \in 1..Len(certs) :
                 certs[i].by = r /\ certs[i].status = StatusPending]_vars

\* the managed annotation is absent or "false"
ManagedAbsentOrFalse(ann) ==
    KeyManaged \notin DOMAIN ann \/ ann[KeyManaged] = StrFalse

\* C4, the steps of a pass on a resource without managed key or with
\* managed=false: the pass that loaded it resolves Managed=false and returns
\* at once without error and without requeue, and no step of the pass changes
\* the resource, the authority or the DNS provider
C4_Steps(r) ==
    (ing[r].exists /\ ManagedAbsentOrFalse(ing[r].ann) /\ pass'[r] # pass[r])
    => /\ UNCHANGED <<ing, certs, nextArn, zones, rrsets>>
       /\ pass'[r].pc \in {"done", "idle"}
       /\ (pass[r].pc = "idle" /\ pass'[r].err # "GetErr")
          => /\ ~pass'[r].cfg.Managed
             /\ pass'[r].err = ErrNone
             /\ pass'[r].requeue = 0

\* C4: for every resource whose annotation map has no managed key or has
\* managed=false, whatever its other annotations, finalizers and deletion
\* timestamp, the resolved configuration has Managed=false and the Reconcile
\* pass (having loaded the resource) changes nothing and returns no error and
\* no requeue
C4_UnmanagedIsInert == [][\A r \in DOMAIN pass : C4_Steps(r)]_vars

\* C4 witness: a pass has returned on a resource with managed=false that
\* carries the finalizer, a deletion timestamp and other annotations
C4_Witness ==
    \E r \in DOMAIN pass :
        /\ pass[r].pc = "done"
        /\ pass[r].err = ErrNone
        /\ ~pass[r].cfg.Managed
        /\ ing[r].exists
        /\ KeyManaged \in DOMAIN ing[r].ann
        /\ ing[r].ann[KeyManaged] = StrFalse
        /\ ingressFinalizer \in ing[r].fins
        /\ ing[r].deleting
        /\ pass[r].cfg.DeleteCertOnIngress
        /\ certs # <<>>

\* the polls a pass makes before the deadline has passed: one at the start
\* and one every IntervalSec up to TimeoutSec
PollsUntilDeadline == (TimeoutSec \div IntervalSec) + 1

\* the certificate with this identifier is at the authority in this status
CertHasStatus(arn, status) ==
    \E i \in 1..Len(certs) : certs[i].arn = arn /\ certs[i].status = status

\* C5, the rounds of the poll loop: a round that finds the certificate still
\* pending before the deadline sleeps IntervalSec and polls again; the round
\* after the deadline returns the timeout error with the certificate
\* identifier, and only that round does; no round touches the resource
C5_Steps(r) ==
    (pass[r].pc = "poll" /\ pass'[r] # pass[r])
    => /\ UNCHANGED ing
       /\ IF pass[r].elapsed > TimeoutSec
          THEN /\ pass'[r].pc = "done"
               /\ pass'[r].err = "Timeout"
               /\ pass'[r].requeue = 0
               /\ pass'[r].arn = pass[r].arn
               /\ pass[r].attempts = PollsUntilDeadline
               /\ pass[r].elapsed = PollsUntilDeadline * IntervalSec
          ELSE /\ pass'[r].err # "Timeout"
               /\ (CertHasStatus(pass[r].arn, StatusPending) /\ pass'[r].pc # "done")
                  => /\ pass'[r].pc = "poll"
                     /\ pass'[r].elapsed = pass[r].elapsed + IntervalSec
                     /\ pass'[r].attempts = pass[r].attempts + 1
               /\ (pass'[r].pc = "done") => pass'[r].err \in {"DescribeErr", "CertFailed"}

\* C5, the result: a pass that has returned the timeout error has not
\* patched: the certificate-identifier annotation has the value the pass
\* loaded, and it is not the identifier of the certificate the pass requested
C5_TimeoutLeavesAnnotation ==
    \A r \in DOMAIN pass :
        (pass[r].pc = "done" /\ pass[r].err = "Timeout")
        => /\ ing[r].certArn = pass[r].obj.certArn
           /\ ing[r].certArn # pass[r].arn
           /\ pass[r].requeue = 0

\* C5: if a newly requested certificate stays in PendingValidation for every
\* poll until the deadline (10 minutes, polls 15 seconds apart),
\* ensureCertificate fails with a timeout error and the Reconcile pass returns
\* that error without patching the certificate-identifier annotation, which
\* keeps its previous value
C5_TimeoutReturnsErrorUnpatched ==
    /\ [][\A r \in DOMAIN pass : C5_Steps(r)]_vars
    /\ []C5_TimeoutLeavesAnnotation

\* C5 witness: a pass has returned the timeout error for the certificate it
\* requested, which is still pending
C5_Witness ==
    \E r \in DOMAIN pass :
        /\ pass[r].pc = "done"
        /\ pass[r].err = "Timeout"
        /\ CertHasStatus(pass[r].arn, StatusPending)
        /\ ing[r].certArn = 0

\* x is a suffix of d
IsSuffixOf(x, d) == \E k \in 0..Len(d) : SubSeq(d, k + 1, Len(d)) = x

\* a zone name without its trailing dot
StripDot(name) ==
    IF name # <<>> /\ name[Len(name)] = "." THEN SubSeq(name, 1, Len(name) - 1) ELSE name

\* the hosted zones whose name is a suffix of the domain
SuffixZones(domain) ==
    { i \in 1..Len(zones) : IsSuffixOf(StripDot(zones[i].Name), domain) }

\* C6, the step of the zone lookup: when ListHostedZones succeeded and no
\* hosted zone's name is a suffix of the validation domain, the pass returns
\* the zone-not-found error and nothing is upserted
C6_Steps(r) ==
    ( /\ pass[r].pc = "findZone"
      /\ pass'[r] # pass[r]
      /\ pass'[r].err # "ZoneListErr"
      /\ SuffixZones(pass[r].opts[pass[r].idx].DomainName) = {} )
    => /\ pass'[r].pc = "done"
       /\ pass'[r].err = "ZoneNotFound"
       /\ pass'[r].requeue = 0
       /\ UNCHANGED <<ing, certs, rrsets>>

\* C6, the states: a pass that has returned the zone-not-found error has
\* requested a certificate, which is at the authority, has upserted nothing,
\* has left the certificate-identifier annotation as it loaded it, and the
\* finalizer is on the resource; and no pass without zone-id override gets
\* past the validation records (to the poll or the patch of a requested
\* certificate) when a requirement with a record has no hosted zone
C6_ZoneNotFoundState ==
    \A r \in DOMAIN pass :
        /\ (pass[r].pc = "done" /\ pass[r].err = "ZoneNotFound")
           => /\ HasFinalizer(r)
              /\ pass[r].arn # 0
              /\ \E i \in 1..Len(certs) : certs[i].arn = pass[r].arn /\ certs[i].by = r
              /\ pass[r].ups = <<>>
              /\ rrsets = {}
              /\ ing[r].certArn = pass[r].obj.certArn
              /\ ing[r].certArn # pass[r].arn
              /\ pass[r].cfg.ZoneID = <<>>
        /\ (pass[r].pc \in {"poll", "patch"} /\ ~pass[r].reused /\ pass[r].cfg.ZoneID = <<>>)
           => \A i \in 1..Len(pass[r].opts) :
                  HasRecord(pass[r].opts[i])
                  => SuffixZones(pass[r].opts[i].DomainName) # {}

\* C6: for a managed resource with no deletion timestamp and no finalizer, no
\* reusable certificate, no zone-id override and no hosted zone whose name is
\* a suffix of the validation domain, the pass persists the finalizer, submits
\* the certificate request, fails in validation-record creation with the
\* zone-not-found error without any DNS upsert, returns that error, and
\* leaves the certificate-identifier annotation unpatched while the finalizer
\* stays on the resource
C6_ZoneNotFoundAfterRequest ==
    /\ [][\A r \in DOMAIN pass : C6_Steps(r)]_vars
    /\ []C6_ZoneNotFoundState

\* C6 witness: a pass that added the finalizer has requested a certificate
\* and returned the zone-not-found error
C6_Witness ==
    \E r \in DOMAIN pass :
        /\ pass[r].pc = "done"
        /\ pass[r].err = "ZoneNotFound"
        /\ pass[r].addedFin
        /\ ~pass[r].obj.deleting
        /\ pass[r].cfg.Managed
        /\ zones = <<>>
        /\ HasFinalizer(r)
        /\ CertHasStatus(pass[r].arn, StatusPending)

\* C7: whenever a pass patches the certificate-identifier annotation, the
\* identifier written is that of a certificate whose status is Issued at
\* that moment, on the reuse path and on the new-request path
C7_PatchedCertificateIsIssued ==
    [][\A r \in DOMAIN pass :
          (pass[r].pc = "patch" /\ pass'[r].pc = "done" /\ pass'[r].err = ErrNone)
          => CertHasStatus(ing'[r].certArn, StatusIssued)]_vars

\* the records of the requirements that carry one
RecordsOf(opts) ==
    { opts[i].ResourceRecord : i \in { j \in 1..Len(opts) : "Name" \in DOMAIN opts[j].ResourceRecord } }

\* C8: createRoute53ValidationRecords never submits two upserts for one
\* (name, type, value) triple, submits upserts only for records of the
\* requirements, and when it has gone through all requirements it has
\* submitted exactly one upsert per distinct triple among the requirements
\* that carry a record descriptor
C8_OneUpsertPerRecord ==
    \A r \in DOMAIN pass :
        /\ \A i, j \in 1..Len(pass[r].ups) : i # j => pass[r].ups[i] # pass[r].ups[j]
        /\ pass[r].pc \in {"findZone", "upsert", "poll"}
           => {pass[r].ups[i] : i \in 1..Len(pass[r].ups)} \subseteq RecordsOf(pass[r].opts)
        /\ pass[r].pc = "poll"
           => /\ {pass[r].ups[i] : i \in 1..Len(pass[r].ups)} = RecordsOf(pass[r].opts)
              /\ Len(pass[r].ups) = Cardinality(RecordsOf(pass[r].opts))

\* C8 witness: all requirements are done; two of them carried the same
\* triple, a third carried none, and one upsert was submitted
C8_Witness ==
    \E r \in DOMAIN pass :
        /\ pass[r].pc = "poll"
        /\ Len(pass[r].opts) = 3
        /\ Len(pass[r].ups) = 1
        /\ Cardinality({ j \in 1..3 : "Name" \in DOMAIN pass[r].opts[j].ResourceRecord }) = 2

\* an identifier without the /hostedzone/ prefix
StripZonePrefix(id) ==
    IF Len(id) >= Len(StrHostedZonePrefix)
       /\ \A k \in 1..Len(StrHostedZonePrefix) : id[k] = StrHostedZonePrefix[k]
    THEN [k \in 1..(Len(id) - Len(StrHostedZonePrefix)) |-> id[k + Len(StrHostedZonePrefix)]]
    ELSE id

\* place i holds the longest of the zones whose name is a suffix of the
\* domain, and is the first place of that length
IsBestZone(domain, i) ==
    /\ i \in SuffixZones(domain)
    /\ \A j \in SuffixZones(domain) :
         \/ Len(StripDot(zones[j].Name)) < Len(StripDot(zones[i].Name))
         \/ Len(StripDot(zones[j].Name)) = Len(StripDot(zones[i].Name)) /\ i <= j

\* C9: for every list of hosted zones and every domain, findMatchingHostedZone
\* (ListHostedZones succeeding) fails if and only if no zone's name, stripped
\* of its trailing dot, is a suffix of the domain, and otherwise returns the
\* identifier, without the /hostedzone/ prefix, of the longest such zone, the
\* first one of that length
C9_LongestSuffixZone ==
    ("ok" \in DOMAIN fnOut /\ ~fnOut.listErr)
    => /\ fnOut.ok <=> SuffixZones(fnIn) # {}
       /\ fnOut.ok
          => \E i \in 1..Len(zones) :
                 IsBestZone(fnIn, i) /\ fnOut.id = StripZonePrefix(zones[i].Id)

\* C9 witness: three zones match the domain, two of them of the longest
\* length, and the first of these, whose identifier has the prefix, is returned
C9_Witness ==
    /\ "ok" \in DOMAIN fnOut
    /\ fnOut.ok
    /\ Cardinality(SuffixZones(fnIn)) = 3
    /\ IsBestZone(fnIn, 2)
    /\ Len(StripDot(zones[3].Name)) = Len(StripDot(zones[2].Name))
    /\ Len(zones[2].Id) > Len(fnOut.id)

\* the annotation is set to "true" in some case of its letters
IsTrueInAnyCase(annotations, k) ==
    k \in DOMAIN annotations /\ annotations[k] \in CaseVariants(StrTrue)

\* C10: for managed, wildcard and delete-cert-on-ingress-delete,
\* ParseIngressAnnotations yields true for every letter-case variant of the
\* value "true" and false for every other value or an absent key;
\* reuse-existing yields true when the key is absent and false only for the
\* value "false"
C10_BooleanAnnotations ==
    ("Managed" \in DOMAIN fnOut)
    => /\ fnOut.Managed <=> IsTrueInAnyCase(fnIn, KeyManaged)
       /\ fnOut.Wildcard <=> IsTrueInAnyCase(fnIn, KeyWildcard)
       /\ fnOut.DeleteCertOnIngress <=> IsTrueInAnyCase(fnIn, KeyDelete)
       /\ fnOut.ReuseExisting <=> ~(KeyReuse \in DOMAIN fnIn /\ fnIn[KeyReuse] = StrFalse)

\* C11: when ensureCertificate submits a new request for domain D, the
\* certificate is requested for "*." followed by D if Wildcard is set and for
\* exactly D otherwise, with the DNS validation method and with the configured
\* SANs as its subject alternative names
C11_RequestedDomainName ==
    [][\A r \in DOMAIN pass :
          (pass[r].pc = "request" /\ Len(certs') > Len(certs))
          => LET req == certs'[Len(certs')]
                 D   == pass[r].domain
             IN  /\ Len(certs') = Len(certs) + 1
                 /\ req.by = r
                 /\ req.domain = IF pass[r].cfg.Wildcard THEN <<"*", ".">> \o D ELSE D
                 /\ req.method = "DNS"
                 /\ req.sans = pass[r].cfg.SANs
                 /\ req.status = StatusPending
                 /\ D = IF KeyDomain \in DOMAIN ing[r].ann THEN ing[r].ann[KeyDomain]
                                                         ELSE ing[r].host]_vars

\* C11 witness: a pass with wildcard set and two SANs configured has requested
\* the certificate for "*." and its host
C11_Witness ==
    \E r \in DOMAIN pass :
        /\ pass[r].pc = "dnsDescribe"
        /\ pass[r].cfg.Wildcard
        /\ Len(pass[r].cfg.SANs) = 2
        /\ \E i \in 1..Len(certs) :
             /\ certs[i].arn = pass[r].arn
             /\ certs[i].domain = <<"*", ".", "a", ".", "b">>
             /\ certs[i].sans = <<<<"a">>, <<"b">>>>

\* the characters of s that are neither whitespace nor a comma
NameChars(s) == SelectSeq(s, LAMBDA c : c \notin {" ", "\t", "\n", ","})

\* the strings of a list, one after the other
RECURSIVE Flatten(_)
Flatten(list) == IF list = <<>> THEN <<>> ELSE Head(list) \o Flatten(Tail(list))

\* C12: ParseIngressAnnotations turns the san annotation into the list of its
\* comma-separated elements (one more than it has commas), each without
\* surrounding whitespace; when the annotation is absent or its value is the
\* empty string the SANs list is empty (length 0)
C12_SanList ==
    ("SANs" \in DOMAIN fnOut)
    => /\ (KeySan \notin DOMAIN fnIn \/ fnIn[KeySan] = <<>>) => Len(fnOut.SANs) = 0
       /\ (KeySan \in DOMAIN fnIn /\ fnIn[KeySan] # <<>>)
          => /\ Len(fnOut.SANs) = 1 + Len(SelectSeq(fnIn[KeySan], LAMBDA c : c = ","))
             /\ \A i \in 1..Len(fnOut.SANs) :
                  LET n == fnOut.SANs[i]
                  IN  /\ "," \notin {n[k] : k \in 1..Len(n)}
                      /\ n # <<>> => n[1] \notin {" ", "\t", "\n"}
                                      /\ n[Len(n)] \notin {" ", "\t", "\n"}
             /\ NameChars(Flatten(fnOut.SANs)) = NameChars(fnIn[KeySan])

\* C13: when the pass before this one gave up with the timeout error on the
\* certificate it requested and that certificate has become Issued since, the
\* list call of this pass (ReuseExisting=true, the call succeeding) finds it:
\* the pass holds that certificate's identifier from the reuse path, goes on
\* to the patch and submits no request, whatever the wildcard annotation
C13_IssuedAfterTimeoutIsReused ==
    [][\A r \in DOMAIN pass :
          ( /\ pass[r].pc = "ensureList"
            /\ pass[r].prev.err = "Timeout"
            /\ CertHasStatus(pass[r].prev.arn, StatusIssued)
            /\ pass'[r].pc # "ensureList"
            /\ pass'[r].err # "ListErr" )
          => /\ pass'[r].pc = "patch"
             /\ pass'[r].reused
             /\ pass'[r].arn = pass[r].prev.arn
             /\ UNCHANGED <<certs, nextArn>>]_vars

\* C14: a resource that carries the finalizer and has a deletion timestamp
\* loses the finalizer eventually when passes keep being run for it and the
\* cleanup and update calls succeed eventually, whatever its annotations are
\* by then
C14_FinalizerEventuallyRemoved ==
    \A r \in Resources :
        (r \in DOMAIN ing /\ HasFinalizer(r) /\ ing[r].deleting)
        ~> (r \in DOMAIN ing /\ ~HasFinalizer(r))

\* certificate i is the only one ever requested for resource r: it is the
\* only certificate of r at the authority and no certificate has left the
\* authority
OnlyRequestedFor(r, i) ==
    /\ certs[i].by = r
    /\ \A j \in 1..Len(certs) : certs[j].by = r => j = i
    /\ nextArn = Len(certs)

\* C15: when a deletion pass on a resource with
\* delete-cert-on-ingress-delete=true removes the finalizer, the one
\* certificate the system requested for the resource (with wildcard set or
\* not) is not at the authority in status Issued or PendingValidation any
\* more: it has been deleted before
C15_NoOrphanedCertificate ==
    [][\A r \in DOMAIN pass :
          ( /\ HasFinalizer(r)
            /\ ~HasFinalizer(r)'
            /\ pass[r].cfg.DeleteCertOnIngress )
          => ~\E i \in 1..Len(certs') :
                 /\ OnlyRequestedFor(r, i)'
                 /\ certs'[i].status \in {StatusIssued, StatusPending}]_vars

\* the positions of a pass at a call of the Active work: a call to the
\* certificate authority or the DNS provider, or the patch
ActiveCalls ==
    {"ensureList", "request", "dnsDescribe", "findZone", "upsert", "poll", "patch"}

\* C16, the states: a pass that is at a call of the Active work is on a
\* managed resource without deletion timestamp whose persisted object carries
\* the finalizer; a pass that failed to persist the finalizer has returned
\* that error having requested nothing, upserted nothing and patched nothing
C16_FinalizerAtActiveCalls ==
    \A r \in DOMAIN pass :
        /\ pass[r].pc \in ActiveCalls
           => /\ HasFinalizer(r)
              /\ ingressFinalizer \in pass[r].obj.fins
              /\ pass[r].cfg.Managed
              /\ ~pass[r].obj.deleting
        /\ (pass[r].pc = "done" /\ pass[r].err = "UpdateErr" /\ ~pass[r].obj.deleting)
           => /\ ~HasFinalizer(r)
              /\ pass[r].arn = 0
              /\ pass[r].ups = <<>>
              /\ ~pass[r].reused
              /\ ing[r].certArn = pass[r].obj.certArn

\* C16, the steps: the pass that loads a managed resource without deletion
\* timestamp and without the finalizer makes the Update that adds it as its
\* first call; that Update either persists the finalizer, and the pass goes on
\* to ensureCertificate, or fails, and the pass returns the error with nothing
\* changed
C16_Steps(r) ==
    /\ ( /\ pass[r].pc = "idle" /\ pass'[r].pc # "idle"
         /\ pass'[r].err # "GetErr"
         /\ ing[r].exists /\ ~ing[r].deleting
         /\ KeyManaged \in DOMAIN ing[r].ann /\ ing[r].ann[KeyManaged] = StrTrue )
       => /\ pass'[r].pc = IF ingressFinalizer \in ing[r].fins
                            THEN (IF pass'[r].cfg.ReuseExisting THEN "ensureList" ELSE "request")
                            ELSE "addFinalizer"
          /\ UNCHANGED <<ing, certs, nextArn, rrsets>>
    /\ (pass[r].pc = "addFinalizer" /\ pass'[r] # pass[r])
       => \/ /\ ingressFinalizer \in ing'[r].fins
             /\ ing'[r].exists
             /\ pass'[r].addedFin
             /\ pass'[r].pc = (IF pass[r].cfg.ReuseExisting THEN "ensureList" ELSE "request")
             /\ UNCHANGED <<certs, nextArn, rrsets>>
          \/ /\ pass'[r].pc = "done"
             /\ pass'[r].err = "UpdateErr"
             /\ pass'[r].requeue = 0
             /\ UNCHANGED <<ing, certs, nextArn, rrsets>>

\* C16: in every pass of a managed resource with no deletion timestamp the
\* finalizer is on the persisted resource before any call of that pass to the
\* certificate authority or the DNS provider: an absent finalizer is added and
\* persisted first and the pass goes on to the Active work, and if persisting
\* it fails the pass returns the error without listing, requesting or patching
C16_FinalizerBeforeActiveWork ==
    /\ [][\A r \in DOMAIN pass : C16_Steps(r)]_vars
    /\ []C16_FinalizerAtActiveCalls

\* C16 witness: the pass that added the finalizer has gone on, in the same
\* pass, to request a certificate, and has it validated
C16_Witness ==
    \E r \in DOMAIN pass :
        /\ pass[r].pc = "patch"
        /\ pass[r].addedFin
        /\ ~pass[r].reused
        /\ HasFinalizer(r)
        /\ CertHasStatus(pass[r].arn, StatusIssued)

\* C17, the steps of the pass that follows one which failed because its
\* certificate reached status Failed: its list call (made when ReuseExisting,
\* and succeeding) does not return the failed certificate, and with no
\* certificate in status Issued or PendingValidation matching the domain the
\* pass goes on to RequestCertificate, which creates a new certificate
C17_Steps(r) ==
    (pass[r].prev.err = "CertFailed")
    => /\ ( /\ pass[r].pc = "ensureList"
            /\ pass'[r].pc # "ensureList"
            /\ pass'[r].err # "ListErr" )
          => /\ pass'[r].arn # pass[r].prev.arn
             /\ \A i \in 1..Len(pass'[r].listed) :
                  pass'[r].listed[i].arn # pass[r].prev.arn
             /\ MatchingListed(pass[r].domain) = {}
                => pass'[r].pc = "request" /\ ~pass'[r].reused
       /\ (pass[r].pc = "request" /\ Len(certs') > Len(certs))
          => /\ pass'[r].arn # pass[r].prev.arn
             /\ pass'[r].arn \notin ArnsOf(certs)
             /\ \E i \in 1..Len(certs') :
                  certs'[i].arn = pass'[r].arn /\ certs'[i].status = StatusPending

\* C17, the states: the certificate the pass before gave up as Failed is not
\* the one a pass holds from the reuse path, and it is Failed for good
C17_FailedIsNotReused ==
    \A r \in DOMAIN pass :
        (pass[r].prev.err = "CertFailed")
        => /\ pass[r].prev.arn # 0
           /\ ~CertHasStatus(pass[r].prev.arn, StatusIssued)
           /\ ~CertHasStatus(pass[r].prev.arn, StatusPending)
           /\ pass[r].reused => pass[r].arn # pass[r].prev.arn
           /\ (pass[r].pc = "patch") => pass[r].arn # pass[r].prev.arn

\* C17: after a pass failed because the certificate it requested reached
\* status Failed, the next pass of the resource does not return the Failed
\* certificate from the reuse path and, when no other certificate in status
\* Issued or PendingValidation matches the domain, submits a fresh request
C17_FreshRequestAfterFailed ==
    /\ [][\A r \in DOMAIN pass : C17_Steps(r)]_vars
    /\ []C17_FailedIsNotReused

\* C17 witness: the pass after the one that failed on a Failed certificate
\* has listed (ReuseExisting), found no match and requested a new certificate
C17_Witness ==
    \E r \in DOMAIN pass :
        /\ pass[r].pc = "dnsDescribe"
        /\ pass[r].cfg.ReuseExisting
        /\ ~pass[r].cfg.Wildcard
        /\ pass[r].prev.err = "CertFailed"
        /\ CertHasStatus(pass[r].prev.arn, StatusFailed)
        /\ pass[r].arn # pass[r].prev.arn
        /\ CertHasStatus(pass[r].arn, StatusPending)

\* C18, the steps: nothing stands between the list call of a pass and its
\* request. A pass whose list call found no match goes on to
\* RequestCertificate, and a RequestCertificate call that the authority
\* accepts creates a new certificate for the pass, whatever certificates have
\* been requested for the domain since the list was read
C18_Steps(r) ==
    /\ ( /\ pass[r].pc = "ensureList"
         /\ pass'[r].pc # "ensureList"
         /\ pass'[r].err # "ListErr"
         /\ MatchingListed(pass[r].domain) = {} )
       => pass'[r].pc = "request" /\ UNCHANGED certs
    /\ ( /\ pass[r].pc = "request"
         /\ pass'[r] # pass[r]
         /\ pass'[r].err # "RequestErr" )
       => /\ Len(certs') = Len(certs) + 1
          /\ certs'[Len(certs')].by = r
          /\ pass'[r].arn = certs'[Len(certs')].arn
          /\ pass'[r].pc = "dnsDescribe"

\* C18: passes of two resources that resolve to the same domain, both with
\* ReuseExisting=true and with no certificate for the domain, running at the
\* same time, are not kept apart between list and request: each that listed
\* before the other requested submits its own request
C18_NoLockBetweenListAndRequest == [][\A r \in DOMAIN pass : C18_Steps(r)]_vars

\* C18 witness: both passes listed no certificate and each has requested one:
\* two certificates requested for the same domain
C18_Witness ==
    /\ DOMAIN pass = {"r1", "r2"}
    /\ \A r \in DOMAIN pass :
         /\ pass[r].pc = "dnsDescribe"
         /\ pass[r].cfg.ReuseExisting
         /\ ~pass[r].cfg.Wildcard
         /\ pass[r].listed = <<>>
         /\ \E i \in 1..Len(certs) : certs[i].arn = pass[r].arn /\ certs[i].by = r
    /\ Len(certs) = 2
    /\ certs[1].domain = certs[2].domain
    /\ certs[1].by # certs[2].by
    /\ pass["r1"].domain = pass["r2"].domain

\* the positions of a pass inside ensureCertificate
EnsureCalls == {"ensureList", "request", "dnsDescribe", "findZone", "upsert", "poll"}

\* the errors ensureCertificate returns: of its list, request, validation
\* records and describe calls, of a Failed certificate and of the timeout
EnsureErrors ==
    {"ListErr", "RequestErr", "DescribeErr", "ZoneListErr", "ZoneNotFound",
     "UpsertErr", "CertFailed", "Timeout"}

\* C19, the steps: ensureCertificate ends either with success, and the pass
\* goes on to the patch with the identifier it returned, or with one of its
\* errors, and the pass returns that error with no resync and the resource as
\* it was; the annotation is written by the patch alone, with the identifier
\* ensureCertificate returned, and the patch that succeeds returns the
\* 12-hour resync
C19_Steps(r) ==
    /\ (pass[r].pc \in EnsureCalls /\ pass'[r].pc \notin EnsureCalls)
       => \/ /\ pass'[r].pc = "patch"
             /\ pass'[r].arn # 0
             /\ pass'[r].err = ErrNone
             /\ UNCHANGED ing
          \/ /\ pass'[r].pc = "done"
             /\ pass'[r].err \in EnsureErrors
             /\ pass'[r].requeue = 0
             /\ UNCHANGED ing
    /\ (pass'[r].pc = "patch" /\ pass[r].pc # "patch") => pass[r].pc \in EnsureCalls
    /\ (ing'[r].certArn # ing[r].certArn)
       => /\ pass[r].pc = "patch"
          /\ ing'[r].certArn = pass[r].arn
    /\ (pass[r].pc = "patch" /\ pass'[r] # pass[r])
       => \/ /\ pass'[r].pc = "done"
             /\ pass'[r].err = ErrNone
             /\ pass'[r].requeue = 12
             /\ ing'[r].certArn = pass[r].arn
          \/ /\ pass'[r].pc = "done"
             /\ pass'[r].err = "PatchErr"
             /\ pass'[r].requeue = 0
             /\ UNCHANGED ing

\* C19, the states: a pass has returned the 12-hour resync exactly when it
\* was on the Active path and returned no error, and then the annotation
\* holds the identifier ensureCertificate returned; a pass that has returned
\* an error of ensureCertificate has returned no resync and the annotation is
\* as the pass loaded it
C19_ResyncAndAnnotation ==
    \A r \in DOMAIN pass :
        (pass[r].pc = "done")
        => /\ (pass[r].requeue # 0)
              <=> (pass[r].cfg.Managed /\ ~pass[r].obj.deleting /\ pass[r].err = ErrNone)
           /\ (pass[r].requeue # 0)
              => /\ pass[r].requeue = 12
                 /\ pass[r].arn # 0
                 /\ ing[r].certArn = pass[r].arn
           /\ (pass[r].err \in EnsureErrors \cup {"PatchErr"})
              => /\ pass[r].requeue = 0
                 /\ ing[r].certArn = pass[r].obj.certArn

\* C19: a pass on the Active path patches the certificate-identifier
\* annotation (the Patch call succeeding) and returns a 12-hour resync exactly
\* when ensureCertificate succeeded, and the value written is the identifier
\* ensureCertificate returned; when ensureCertificate fails (list, request,
\* DNS record, describe, Failed status or timeout) the pass returns the error,
\* requests no resync and leaves the annotation unchanged even though a
\* certificate identifier was returned with the error
C19_PatchExactlyOnSuccess ==
    /\ [][\A r \in DOMAIN pass : C19_Steps(r)]_vars
    /\ []C19_ResyncAndAnnotation

\* C19 witness: an earlier pass patched the annotation with the identifier of
\* the certificate it requested; this pass requested another one, failed
\* after that with the new identifier in hand, and the annotation still
\* holds the earlier one
C19_Witness ==
    \E r \in DOMAIN pass :
        /\ pass[r].pc = "done"
        /\ pass[r].err \in EnsureErrors
        /\ pass[r].requeue = 0
        /\ pass[r].arn # 0
        /\ ing[r].certArn # 0
        /\ ing[r].certArn # pass[r].arn
        /\ CertHasStatus(pass[r].arn, StatusPending)

\* the positions of a pass inside createRoute53ValidationRecords
DnsCalls == {"dnsDescribe", "findZone", "upsert"}

\* the errors createRoute53ValidationRecords returns
DnsErrors == {"DescribeErr", "ZoneListErr", "ZoneNotFound", "UpsertErr"}

\* C20, the steps: a call of createRoute53ValidationRecords that fails ends
\* the pass at once with its error and the identifier of the certificate just
\* requested; no poll has been made, and the certificate stays at the
\* authority as it is
C20_Steps(r) ==
    (pass[r].pc \in DnsCalls /\ pass'[r].pc = "done")
    => /\ pass'[r].err \in DnsErrors
       /\ pass'[r].arn = pass[r].arn
       /\ pass[r].arn # 0
       /\ ~pass[r].reused
       /\ pass[r].attempts = 0
       /\ pass[r].elapsed = 0
       /\ certs' = certs
       /\ \E i \in 1..Len(certs') : certs'[i].arn = pass[r].arn /\ certs'[i].by = r
       /\ UNCHANGED <<ing, nextArn>>

\* C20, the states: while a pass that requested a certificate is at the
\* validation records, and after it has returned from there or from anywhere
\* later with an error, the certificate it requested is at the authority; a
\* pass polls only after the validation records were created
C20_NoRollback ==
    \A r \in DOMAIN pass :
        /\ ( /\ pass[r].arn # 0
             /\ ~pass[r].reused
             /\ pass[r].pc \in DnsCalls \cup {"poll", "patch", "done"} )
           => \E i \in 1..Len(certs) : certs[i].arn = pass[r].arn /\ certs[i].by = r
        /\ (pass[r].pc \in DnsCalls) => pass[r].attempts = 0

\* C20: when createRoute53ValidationRecords fails after a new certificate was
\* requested, ensureCertificate returns the error together with the new
\* certificate's identifier at once: it makes no status poll, and neither it
\* nor the rest of the pass deletes the new certificate, which stays at the
\* authority
C20_DnsFailureKeepsCertificate ==
    /\ [][\A r \in DOMAIN pass : C20_Steps(r)]_vars
    /\ []C20_NoRollback

\* C20 witness: the upsert of a validation record failed; the pass has
\* returned that error with the identifier of the certificate it requested,
\* which is pending at the authority
C20_Witness ==
    \E r \in DOMAIN pass :
        /\ pass[r].pc = "done"
        /\ pass[r].err = "UpsertErr"
        /\ pass[r].arn # 0
        /\ Len(pass[r].ups) = 1
        /\ CertHasStatus(pass[r].arn, StatusPending)
        /\ ing[r].certArn = 0

\* C21, the rounds of the loop: before the deadline has passed a round makes
\* one describe call and ends the loop with success when it saw Issued, with
\* the failure when it saw Failed and with the describe error when the call
\* failed, and otherwise sleeps 15 seconds; once the deadline has passed the
\* round makes no call and ends the loop with the timeout error
C21_Steps(r) ==
    (pass[r].pc = "poll" /\ pass'[r] # pass[r])
    => /\ pass'[r].arn = pass[r].arn
       /\ UNCHANGED <<ing, certs, nextArn, rrsets>>
       /\ IF pass[r].elapsed > 600
          THEN /\ pass'[r].pc = "done"
               /\ pass'[r].err = "Timeout"
          ELSE \/ /\ pass'[r].pc = "done"
                  /\ pass'[r].err = "DescribeErr"
               \/ /\ CertHasStatus(pass[r].arn, StatusIssued)
                  /\ pass'[r].pc = "patch"
                  /\ pass'[r].err = ErrNone
               \/ /\ CertHasStatus(pass[r].arn, StatusFailed)
                  /\ pass'[r].pc = "done"
                  /\ pass'[r].err = "CertFailed"
               \/ /\ ~CertHasStatus(pass[r].arn, StatusIssued)
                  /\ ~CertHasStatus(pass[r].arn, StatusFailed)
                  /\ pass'[r].pc = "poll"
                  /\ pass'[r].attempts = pass[r].attempts + 1
                  /\ pass'[r].elapsed = pass[r].elapsed + 15

\* C21, the bound: the polls made are 15 seconds apart from the start of the
\* loop, and none is made after the 10 minutes: at most 41
C21_PollsBounded ==
    \A r \in DOMAIN pass :
        (pass[r].pc = "poll")
        => /\ pass[r].elapsed = 15 * pass[r].attempts
           /\ pass[r].attempts <= 41
           /\ pass[r].elapsed <= 600 + 15

\* C21: after a new request and the creation of the validation records, the
\* poll loop of ensureCertificate always terminates: with success and the
\* certificate identifier as soon as a poll observes Issued, with the failure
\* as soon as a poll observes Failed, with the describe error if a poll call
\* fails, and otherwise with the timeout error once the 10-minute deadline has
\* passed; no poll is made after the deadline, so the polls, 15 seconds
\* apart, are bounded in number
C21_PollLoopTerminates ==
    /\ [][\A r \in DOMAIN pass : C21_Steps(r)]_vars
    /\ []C21_PollsBounded
    /\ \A r \in Resources :
         (r \in DOMAIN pass /\ pass[r].pc = "poll")
         ~> (r \in DOMAIN pass /\ pass[r].pc # "poll")

\* C21 witness: the certificate was pending at each of the 41 polls and the
\* deadline has passed: the round to come makes no call
C21_Witness ==
    \E r \in DOMAIN pass :
        /\ pass[r].pc = "poll"
        /\ pass[r].attempts = 41
        /\ pass[r].elapsed > 600
        /\ CertHasStatus(pass[r].arn, StatusPending)

====
